---- MODULE Spec2Model ----
(***************************************************************************)
(* Model of the requestId middleware of http-request-id (src/index.ts).   *)
(*                                                                         *)
(* requestId(options) captures headerName and setResponseHeader and        *)
(* returns a handler (req, res, next).  The handler is modelled statement  *)
(* by statement (pc), so that the order of the generator call, the header  *)
(* lookup, the response header write, the attachment of req.requestId and  *)
(* the call of the continuation can be observed.                           *)
(*                                                                         *)
(* JavaScript values are tagged records, header names are sequences of     *)
(* character codes (so that letter case is something the model computes).  *)
(***************************************************************************)
EXTENDS Integers, Sequences, FiniteSets, TLC

VARIABLES
  options,            \* the options object passed to requestId(); mutable by its owner
  ctor,               \* the value of options when requestId() was called
  headerName,         \* const headerName         (closure, line 113)
  setResponseHeader,  \* const setResponseHeader  (closure, line 114)
  req,                \* the IncomingMessage of the current invocation
  res,                \* the ServerResponse of the current invocation
  pc,                 \* position of the handler
  generatedId,        \* const generatedId        (line 122)
  incomingHeader,     \* const incomingHeader     (line 125)
  requestIdValue,     \* const requestIdValue     (lines 126-128)
  nextCalls,          \* the calls of next() made by the current invocation
  trace,              \* the calls the current invocation made, in order
  pre                 \* req and res as they were when the handler was entered

vars == <<options, ctor, headerName, setResponseHeader, req, res, pc,
          generatedId, incomingHeader, requestIdValue, nextCalls, trace, pre>>

----------------------------------------------------------------------------
(* Bounds                                                                  *)

\* longest list of values a repeated header is surfaced as
MaxVals == 2

----------------------------------------------------------------------------
(* JavaScript values                                                       *)

Undefined == [t |-> "undefined"]
Str(s)    == [t |-> "string", s |-> s]
Arr(a)    == [t |-> "array", a |-> a]
Bool(b)   == [t |-> "boolean", b |-> b]
Name(n)   == [t |-> "string", chars |-> n]
Fn(f)     == [t |-> "function", f |-> f]

\* a ?? b
Coalesce(a, b) == IF a = Undefined THEN b ELSE a

\* Array.isArray(v)
IsArray(v) == v.t = "array"

\* a[0]
First(a) == IF Len(a) > 0 THEN Str(a[1]) ELSE Undefined

----------------------------------------------------------------------------
(* Header names                                                            *)

\* "x-request-id"
XRequestId == <<120, 45, 114, 101, 113, 117, 101, 115, 116, 45, 105, 100>>
\* "x-correlation-id"
XCorrelationIdLower ==
  <<120, 45, 99, 111, 114, 114, 101, 108, 97, 116, 105, 111, 110, 45, 105, 100>>
\* "X-Correlation-Id"
XCorrelationId ==
  <<88, 45, 67, 111, 114, 114, 101, 108, 97, 116, 105, 111, 110, 45, 73, 100>>
\* "x-client-id"
XClientId == <<120, 45, 99, 108, 105, 101, 110, 116, 45, 105, 100>>

\* String.prototype.toLowerCase on ASCII: 'A'..'Z' -> 'a'..'z'
ToLowerCase(n) ==
  [i \in 1..Len(n) |-> IF n[i] >= 65 /\ n[i] <= 90 THEN n[i] + 32 ELSE n[i]]

\* the empty header set
NoHeaders == [k \in {} |-> Undefined]

\* headers[name]: a plain property read, exact in letter case
Get(headers, name) ==
  IF name \in DOMAIN headers THEN headers[name] ELSE Undefined

\* the header set with one more entry
With(headers, key, value) ==
  [k \in DOMAIN headers \cup {key} |-> IF k = key THEN value ELSE headers[k]]

\* node:http keeps incoming header names lower-cased in req.headers
Incoming(headers, wireName, value) ==
  IF value = Undefined THEN headers
  ELSE With(headers, ToLowerCase(wireName), value)

\* res.setHeader(name, value): header names are case-insensitive, one entry
\* per name, a later call overwrites
SetHeader(headers, name, value) == With(headers, ToLowerCase(name), value)

----------------------------------------------------------------------------
(* Inputs                                                                  *)

\* what randomUUID() may return
UUIDs == {"uuid-1", "uuid-2"}

\* generator functions a caller may configure:
\*   fixed  : () => "fixed-id"
\*   blank  : () => ""
\*   client : (req) => req.headers["x-client-id"] ?? randomUUID()
\*   throws : () => { throw new Error() }
Generators == {Fn("fixed"), Fn("blank"), Fn("client"), Fn("throws")}

\* the options objects requestId() is called with
OptionsObjects ==
  [generator         : {Undefined} \cup Generators,
   headerName        : {Undefined, Name(XCorrelationIdLower), Name(XCorrelationId)},
   setResponseHeader : {Undefined, Bool(TRUE), Bool(FALSE)}]

\* requestId() may also be called without options
OptionsSet == {Undefined} \cup OptionsObjects

\* the values of one element of a repeated header
ArrVals == {"", "id-1", "id-2"}

Lists == UNION {[1..n -> ArrVals] : n \in 1..MaxVals}

\* what a request carries under the correlation header
HeaderVals == {Str(""), Str("abc-123")} \cup {Arr(a) : a \in Lists}

\* the letter case the client wrote the correlation header's name in
WireNames == {XCorrelationIdLower, XCorrelationId}

\* response headers an earlier stage of the chain has set
PriorResponses ==
  {NoHeaders,
   SetHeader(NoHeaders, XCorrelationId, Str("old")),
   SetHeader(NoHeaders, XRequestId, Str("old"))}

----------------------------------------------------------------------------
(* requestId(options)                                                      *)

\* options?.field
Field(o, f) == IF o = Undefined THEN Undefined ELSE o[f]

\* const headerName = options?.headerName ?? "x-request-id"
ResolveHeaderName(o) == Coalesce(Field(o, "headerName"), Name(XRequestId)).chars

\* const setResponseHeader = options?.setResponseHeader ?? true
ResolveSetResponseHeader(o) == Coalesce(Field(o, "setResponseHeader"), Bool(TRUE)).b

\* what the custom generator f returns for request r (u: the UUID it would draw)
GeneratorResult(f, r, u) ==
  IF f = "fixed" THEN Str("fixed-id")
  ELSE IF f = "blank" THEN Str("")
  ELSE Coalesce(Get(r.headers, XClientId), Str(u))

\* options?.generator?.(req)
CustomId(o, r, u) ==
  IF Field(o, "generator") = Undefined THEN Undefined
  ELSE GeneratorResult(Field(o, "generator").f, r, u)

\* GeneratedId with the custom generator ignored: always randomUUID()
GeneratedId_IgnoresCustom(o, r, u) == Str(u)

\* options?.generator?.(req) ?? randomUUID()
GeneratedId(o, r, u) == Coalesce(CustomId(o, r, u), Str(u))

\* Array.isArray(incomingHeader) ? incomingHeader?.[0] ?? generatedId
\*                               : incomingHeader ?? generatedId
RequestIdValue(incoming, generated) ==
  IF IsArray(incoming) THEN Coalesce(First(incoming.a), generated)
  ELSE Coalesce(incoming, generated)

\* one call made by the handler
Event(ev, fn, name, val) == [ev |-> ev, fn |-> fn, name |-> name, val |-> val]

EmptyRequest  == [headers |-> NoHeaders, requestId |-> Undefined]
EmptyResponse == [headers |-> NoHeaders]

Init ==
  /\ options \in OptionsSet
  /\ ctor = options
  /\ headerName = ResolveHeaderName(options)
  /\ setResponseHeader = ResolveSetResponseHeader(options)
  /\ req = EmptyRequest
  /\ res = EmptyResponse
  /\ pc = "idle"
  /\ generatedId = Undefined
  /\ incomingHeader = Undefined
  /\ requestIdValue = Undefined
  /\ nextCalls = <<>>
  /\ trace = <<>>
  /\ pre = [req |-> EmptyRequest, res |-> EmptyResponse]

----------------------------------------------------------------------------
(* The handler (req, res, next)                                            *)

\* the chain calls the handler with a new request and response
Receive ==
  /\ pc = "idle"
  /\ \E wire \in WireNames, cv \in {Undefined} \cup HeaderVals,
        dv \in {Undefined, Str(""), Str("abc-123")},
        cl \in {Undefined, Str("client-7")},
        prior \in PriorResponses :
       LET h == Incoming(Incoming(Incoming(NoHeaders, wire, cv), XRequestId, dv),
                         XClientId, cl)
           r == [headers |-> h, requestId |-> Undefined]
           s == [headers |-> prior]
       IN /\ req' = r
          /\ res' = s
          /\ pre' = [req |-> r, res |-> s]
  /\ pc' = "generate"
  /\ UNCHANGED <<options, ctor, headerName, setResponseHeader, generatedId,
                 incomingHeader, requestIdValue, nextCalls, trace>>

\* Generate calling the generator only when the request lacks the header
Generate_OnlyIfNeeded ==
  /\ pc = "generate"
  /\ Field(options, "generator") # Fn("throws")
  /\ IF Get(req.headers, headerName) # Undefined
     THEN UNCHANGED <<generatedId, trace>>
     ELSE \E u \in UUIDs :
            /\ generatedId' = GeneratedId(options, req, u)
            /\ trace' = Append(trace,
                 IF Field(options, "generator") = Undefined
                 THEN Event("randomUUID", "randomUUID", Undefined, Str(u))
                 ELSE Event("generator", Field(options, "generator").f, Undefined,
                            CustomId(options, req, u)))
  /\ pc' = "lookup"
  /\ UNCHANGED <<options, ctor, headerName, setResponseHeader, req, res,
                 incomingHeader, requestIdValue, nextCalls, pre>>

\* line 122, the generator returns
Generate ==
  /\ pc = "generate"
  /\ Field(options, "generator") # Fn("throws")
  /\ \E u \in UUIDs :
       /\ generatedId' = GeneratedId(options, req, u)
       /\ trace' = Append(trace,
            IF Field(options, "generator") = Undefined
            THEN Event("randomUUID", "randomUUID", Undefined, Str(u))
            ELSE Event("generator", Field(options, "generator").f, Undefined,
                       CustomId(options, req, u)))
  /\ pc' = "lookup"
  /\ UNCHANGED <<options, ctor, headerName, setResponseHeader, req, res,
                 incomingHeader, requestIdValue, nextCalls, pre>>

\* GeneratorThrows with the exception caught and handed to next(err)
GeneratorThrows_Caught ==
  /\ pc = "generate"
  /\ Field(options, "generator") = Fn("throws")
  /\ trace' = Append(Append(trace, Event("throw", "throws", Undefined, Undefined)),
                     Event("next", "", Undefined, Str("error")))
  /\ nextCalls' = Append(nextCalls, [error |-> Str("error"), req |-> req, res |-> res])
  /\ pc' = "done"
  /\ UNCHANGED <<options, ctor, headerName, setResponseHeader, req, res,
                 generatedId, incomingHeader, requestIdValue, pre>>

\* line 122, the generator throws: nothing catches it, the handler is left
GeneratorThrows ==
  /\ pc = "generate"
  /\ Field(options, "generator") = Fn("throws")
  /\ trace' = Append(trace, Event("throw", "throws", Undefined, Undefined))
  /\ pc' = "thrown"
  /\ UNCHANGED <<options, ctor, headerName, setResponseHeader, req, res,
                 generatedId, incomingHeader, requestIdValue, nextCalls, pre>>

\* lines 125-128
Lookup ==
  /\ pc = "lookup"
  /\ incomingHeader' = Get(req.headers, headerName)
  /\ requestIdValue' = RequestIdValue(incomingHeader', generatedId)
  /\ trace' = Append(trace, Event("get", "", Name(headerName), incomingHeader'))
  /\ pc' = "echo"
  /\ UNCHANGED <<options, ctor, headerName, setResponseHeader, req, res,
                 generatedId, nextCalls, pre>>

\* Echo with the setResponseHeader test left out
Echo_Always ==
  /\ pc = "echo"
  /\ res' = [res EXCEPT !.headers = SetHeader(@, headerName, requestIdValue)]
  /\ trace' = Append(trace, Event("setHeader", "", Name(headerName), requestIdValue))
  /\ pc' = "attach"
  /\ UNCHANGED <<options, ctor, headerName, setResponseHeader, req,
                 generatedId, incomingHeader, requestIdValue, nextCalls, pre>>

\* lines 131-133
Echo ==
  /\ pc = "echo"
  /\ IF setResponseHeader
     THEN /\ res' = [res EXCEPT !.headers = SetHeader(@, headerName, requestIdValue)]
          /\ trace' = Append(trace,
               Event("setHeader", "", Name(headerName), requestIdValue))
     ELSE UNCHANGED <<res, trace>>
  /\ pc' = "attach"
  /\ UNCHANGED <<options, ctor, headerName, setResponseHeader, req,
                 generatedId, incomingHeader, requestIdValue, nextCalls, pre>>

\* line 136
Attach ==
  /\ pc = "attach"
  /\ req' = [req EXCEPT !.requestId = requestIdValue]
  /\ trace' = Append(trace, Event("attach", "", Undefined, requestIdValue))
  /\ pc' = "next"
  /\ UNCHANGED <<options, ctor, headerName, setResponseHeader, res,
                 generatedId, incomingHeader, requestIdValue, nextCalls, pre>>

\* CallNext with next() called a second time
CallNext_Twice ==
  /\ pc = "next"
  /\ nextCalls' = Append(Append(nextCalls,
                                [error |-> Undefined, req |-> req, res |-> res]),
                         [error |-> Undefined, req |-> req, res |-> res])
  /\ trace' = Append(Append(trace, Event("next", "", Undefined, Undefined)),
                     Event("next", "", Undefined, Undefined))
  /\ pc' = "done"
  /\ UNCHANGED <<options, ctor, headerName, setResponseHeader, req, res,
                 generatedId, incomingHeader, requestIdValue, pre>>

\* line 139; the handler returns when next() has returned
CallNext ==
  /\ pc = "next"
  /\ nextCalls' = Append(nextCalls, [error |-> Undefined, req |-> req, res |-> res])
  /\ trace' = Append(trace, Event("next", "", Undefined, Undefined))
  /\ pc' = "done"
  /\ UNCHANGED <<options, ctor, headerName, setResponseHeader, req, res,
                 generatedId, incomingHeader, requestIdValue, pre>>

\* the request is over: req, res and the handler's locals are dropped, the
\* handler is ready for the next request
Complete ==
  /\ pc \in {"done", "thrown"}
  /\ pc' = "idle"
  /\ req' = EmptyRequest
  /\ res' = EmptyResponse
  /\ generatedId' = Undefined
  /\ incomingHeader' = Undefined
  /\ requestIdValue' = Undefined
  /\ nextCalls' = <<>>
  /\ trace' = <<>>
  /\ pre' = [req |-> EmptyRequest, res |-> EmptyResponse]
  /\ UNCHANGED <<options, ctor, headerName, setResponseHeader>>

\* the owner of the options object assigns one of its fields after
\* requestId(options) has returned, between two invocations of the handler
MutateOptions ==
  /\ pc = "idle"
  /\ options # Undefined
  /\ options = ctor
  /\ \E f \in {"generator", "headerName", "setResponseHeader"} :
       \E o \in OptionsObjects :
         /\ o # options
         /\ o = [options EXCEPT ![f] = o[f]]
         /\ options' = o
  /\ UNCHANGED <<ctor, headerName, setResponseHeader, req, res, pc, generatedId,
                 incomingHeader, requestIdValue, nextCalls, trace, pre>>

Next ==
  \/ Receive
  \/ Generate
  \/ GeneratorThrows
  \/ Lookup
  \/ Echo
  \/ Attach
  \/ CallNext

Spec == Init /\ [][Next]_vars

NextMutable == Next \/ MutateOptions

\* the program with a caller that changes its options object after construction
SpecMutable == Init /\ [][NextMutable]_vars

----------------------------------------------------------------------------
(* Vocabulary of the properties                                            *)

\* the handler has returned normally
Returned == pc = "done"

\* the header name requestId() was configured with
ConfiguredName ==
  IF Field(ctor, "headerName") = Undefined THEN XRequestId
  ELSE Field(ctor, "headerName").chars

\* the key the configured name has in a header set (names are case-insensitive)
ConfiguredKey == ToLowerCase(ConfiguredName)

\* echoing is enabled in the configuration
EchoEnabled == Field(ctor, "setResponseHeader") # Bool(FALSE)

\* what the request carried under the configured header when the handler
\* was entered
Sent == Get(pre.req.headers, ConfiguredKey)

\* the request carried the configured header with an empty (first) value
SentEmpty == Sent = Str("") \/ (IsArray(Sent) /\ Sent.a[1] = "")

\* the generator calls of the current invocation
GeneratorCalls ==
  {i \in DOMAIN trace : trace[i].ev \in {"generator", "randomUUID", "throw"}}

\* the generator the configuration names
ConfiguredGenerator ==
  IF Field(ctor, "generator") = Undefined THEN "randomUUID"
  ELSE Field(ctor, "generator").f

----------------------------------------------------------------------------
(* C1: header precedence.  When the handler has returned and the request   *)
(* carried the configured header as one non-empty string, req.requestId is *)
(* that string, whatever the generator returned.                           *)
C1_HeaderPrecedence ==
  (Returned /\ Sent.t = "string" /\ Sent # Str("")) => req.requestId = Sent

(* C2: empty-value fallback.  When the handler has returned and the        *)
(* request carried the configured header with an empty value (alone or     *)
(* first of a list), req.requestId is the candidate the generator          *)
(* returned, not the empty string.                                         *)
C2_EmptyValueFallback ==
  (Returned /\ SentEmpty) =>
     /\ req.requestId = trace[1].val
     /\ trace[1].val # Str("") => req.requestId # Str("")

(* C3: multi-value handling.  When the handler has returned and the        *)
(* request carried the configured header as a list of two or more values   *)
(* with a non-empty first value, req.requestId is the first value.         *)
C3_FirstOfMany ==
  (Returned /\ IsArray(Sent) /\ Len(Sent.a) >= 2 /\ Sent.a[1] # "") =>
     req.requestId = Str(Sent.a[1])

(* C4: generation when no header.  When the handler has returned and the   *)
(* request carried nothing under the configured header, req.requestId is   *)
(* what the configured generator returns for the request: "fixed-id" for   *)
(* the fixed generator, "" for the blank one, the x-client-id value (else  *)
(* a UUID) for the client generator, a UUID when none is configured.       *)
C4_GeneratedWhenAbsent ==
  (Returned /\ Sent = Undefined) =>
     /\ req.requestId = trace[1].val
     /\ ConfiguredGenerator = "fixed" => req.requestId = Str("fixed-id")
     /\ ConfiguredGenerator = "blank" => req.requestId = Str("")
     /\ ConfiguredGenerator = "client" =>
          IF Get(pre.req.headers, XClientId) # Undefined
          THEN req.requestId = Get(pre.req.headers, XClientId)
          ELSE req.requestId.s \in UUIDs
     /\ ConfiguredGenerator = "randomUUID" => req.requestId.s \in UUIDs

C4_Witness ==
  /\ Returned
  /\ Sent = Undefined
  /\ ConfiguredGenerator = "fixed"
  /\ req.requestId = Str("fixed-id")

(* C5: chain continuation.  next() is called at most once, only as the     *)
(* handler's last step; when the handler has returned it was called        *)
(* exactly once, without an error, and the req and res it was called with  *)
(* already had req.requestId set and, when echoing is enabled, the         *)
(* response header written.                                                *)
C5_ContinuationOnce ==
  /\ Len(nextCalls) <= 1
  /\ Len(nextCalls) = 1 <=> Returned
  /\ Returned =>
       /\ nextCalls[1].error = Undefined
       /\ nextCalls[1].req.requestId # Undefined
       /\ nextCalls[1].req.requestId = req.requestId
       /\ EchoEnabled =>
            Get(nextCalls[1].res.headers, ConfiguredKey) = req.requestId
       /\ trace[Len(trace)].ev = "next"

C5_Witness ==
  /\ Returned
  /\ IsArray(Sent)
  /\ EchoEnabled
  /\ Len(nextCalls) = 1
  /\ nextCalls[1].req.requestId = req.requestId

(* C6: echo policy.  The request's headers never change.  The response's   *)
(* headers differ from those at entry at most in the entry of the          *)
(* configured name, and only when echoing is enabled; when the handler has *)
(* returned with echoing enabled that entry holds req.requestId.           *)
C6_EchoPolicy ==
  /\ req.headers = pre.req.headers
  /\ ~EchoEnabled => res.headers = pre.res.headers
  /\ DOMAIN res.headers \subseteq DOMAIN pre.res.headers \cup {ConfiguredKey}
  /\ \A k \in DOMAIN pre.res.headers :
       k # ConfiguredKey => (k \in DOMAIN res.headers /\ res.headers[k] = pre.res.headers[k])
  /\ (Returned /\ EchoEnabled) => Get(res.headers, ConfiguredKey) = req.requestId

C6_Witness ==
  /\ Returned
  /\ EchoEnabled
  /\ Get(pre.res.headers, ConfiguredKey) = Str("old")
  /\ Get(res.headers, ConfiguredKey) = req.requestId
  /\ req.requestId # Str("old")

(* C7: case-insensitive lookup.  When the handler has returned and the     *)
(* request carried a non-empty value under a name equal to the configured  *)
(* name up to letter case, req.requestId is that value; no header of       *)
(* another name is read or written.                                        *)
C7_CaseInsensitiveLookup ==
  Returned =>
     /\ (Sent.t = "string" /\ Sent # Str("")) => req.requestId = Sent
     /\ (IsArray(Sent) /\ Sent.a[1] # "") => req.requestId = Str(Sent.a[1])
     /\ \A i \in DOMAIN trace :
          trace[i].ev \in {"get", "setHeader"} =>
             ToLowerCase(trace[i].name.chars) = ConfiguredKey

C9_ConstructionTimeConfig ==
  pc \notin {"idle", "generate"} =>
     /\ trace[1].fn = ConfiguredGenerator
     /\ \A i \in DOMAIN trace :
          trace[i].ev \in {"get", "setHeader"} => trace[i].name.chars = ConfiguredName
     /\ Returned => (EchoEnabled <=> \E i \in DOMAIN trace : trace[i].ev = "setHeader")

(* C10: throwing generator.  When the configured generator throws, the     *)
(* handler is left by the exception: next() is not called, req and res are *)
(* as they were when the handler was entered.                              *)
C10_ThrowPropagates ==
  (ConfiguredGenerator = "throws" /\ pc \notin {"idle", "generate"}) =>
     /\ pc = "thrown"
     /\ nextCalls = <<>>
     /\ req = pre.req
     /\ res = pre.res

C10_Witness ==
  /\ pc = "thrown"
  /\ ConfiguredGenerator = "throws"
  /\ Get(pre.req.headers, ConfiguredKey) = Str("abc-123")
  /\ Get(pre.res.headers, ConfiguredKey) = Str("old")

====
